---------------------------- MODULE Spec2Model ----------------------------
(***************************************************************************)
(* The embassy-agb time driver (embassy-agb/src/time_driver.rs): a 16-bit  *)
(* GBA hardware timer extended to a 64-bit logical tick count, the alarm   *)
(* state next to the embassy timer queue, and the overflow interrupt       *)
(* handler, interleaved with mainline calls and with the hardware counter. *)
(***************************************************************************)
EXTENDS Integers, FiniteSets, Sequences, TLC

(***************************************************************************)
(* Program constants.                                                      *)
(***************************************************************************)
\* modulus of the 16-bit hardware counter (the literal of calc_now)
TIMER_MODULUS == 65536
\* const DEFAULT_TIMER_OVERFLOW_AMOUNT: u16 = 64
DEFAULT_TIMER_OVERFLOW_AMOUNT == 64
\* u64::MAX, the "no alarm" timestamp.  TLC's integers are 32 bits wide, so
\* the value is represented by the largest of them; every time value the
\* bounded model computes is below 2^17.
U64_MAX == 2147483647

(***************************************************************************)
(* Bounds of the model.                                                    *)
(***************************************************************************)
\* the short overflow amount the configuration is given, beside 0 and the
\* default
ShortAmount == 3
\* hardware overflows explored after the timer was started
MaxOverflows == 2
\* the counter is stepped one count at a time within FineWindow counts of
\* either end of an overflow period and in one jump in between
FineWindow == 1
\* wake handles are 1 .. NumHandles
NumHandles == 2
\* a wake is requested for the latest now() value plus 0 .. MaxDelay
MaxDelay == 2
\* calc_now is applied to periods 0 .. MaxCalcPeriod
MaxCalcPeriod == 3
\* the hardware sequence is followed for amounts 0 .. MaxSeqAmount
MaxSeqAmount == 8
\* the idle loop is followed with period counted modulo IdlePeriods (the
\* AtomicU32 wraps at 2^32; the loop itself never reads it)
IdlePeriods == 3
\* the deadlines of the queues the retry loops are started on: 0 .. MaxRetryDeadline
MaxRetryDeadline == 3

Handles == 1 .. NumHandles
OverflowAmounts == {0, ShortAmount, DEFAULT_TIMER_OVERFLOW_AMOUNT}

(***************************************************************************)
(* Pure functions.                                                         *)
(***************************************************************************)
\* `x as u16`
AsU16(x) == x % TIMER_MODULUS

\* calc_now with the boundary count taken for a wrapped one (> for >=)
calc_now_boundary_wrapped(p, c, initial, amount) ==
    LET overflow_start == TIMER_MODULUS - amount
        hardware_ticks_elapsed ==
            IF p = 0
            THEN IF c >= AsU16(initial)
                 THEN c - AsU16(initial)
                 ELSE (TIMER_MODULUS - initial) + c
            ELSE p * amount
                 + (IF c > AsU16(overflow_start)
                    THEN c - AsU16(overflow_start)
                    ELSE (TIMER_MODULUS - overflow_start) + c)
    IN  hardware_ticks_elapsed \div 2

\* calc_now without the wrap of the first period (plain subtraction)
calc_now_no_first_wrap(p, c, initial, amount) ==
    LET overflow_start == TIMER_MODULUS - amount
        hardware_ticks_elapsed ==
            IF p = 0
            THEN IF c >= AsU16(initial)
                 THEN c - AsU16(initial)
                 ELSE AsU16(initial) - c
            ELSE p * amount
                 + (IF c >= AsU16(overflow_start)
                    THEN c - AsU16(overflow_start)
                    ELSE (TIMER_MODULUS - overflow_start) + c)
    IN  hardware_ticks_elapsed \div 2

\* calc_now converting with (ticks + 1) >> 1: rounds up
calc_now_rounds_up(p, c, initial, amount) ==
    LET overflow_start == TIMER_MODULUS - amount
        hardware_ticks_elapsed ==
            IF p = 0
            THEN IF c >= AsU16(initial)
                 THEN c - AsU16(initial)
                 ELSE (TIMER_MODULUS - initial) + c
            ELSE p * amount
                 + (IF c >= AsU16(overflow_start)
                    THEN c - AsU16(overflow_start)
                    ELSE (TIMER_MODULUS - overflow_start) + c)
    IN  (hardware_ticks_elapsed + 1) \div 2

\* calc_now, branch by branch, with the source's casts
calc_now(p, c, initial, amount) ==
    LET overflow_start == TIMER_MODULUS - amount
        hardware_ticks_elapsed ==
            IF p = 0
            THEN IF c >= AsU16(initial)
                 THEN c - AsU16(initial)
                 ELSE (TIMER_MODULUS - initial) + c
            ELSE LET ticks_from_completed_periods == p * amount
                     ticks_in_current_period ==
                         IF c >= AsU16(overflow_start)
                         THEN c - AsU16(overflow_start)
                         ELSE (TIMER_MODULUS - overflow_start) + c
                 IN  ticks_from_completed_periods + ticks_in_current_period
    IN  hardware_ticks_elapsed \div 2

\* the value of calc_now's `hardware_ticks_elapsed`, before the conversion
hardware_ticks_elapsed(p, c, initial, amount) ==
    LET overflow_start == TIMER_MODULUS - amount
    IN  IF p = 0
        THEN IF c >= AsU16(initial)
             THEN c - AsU16(initial)
             ELSE (TIMER_MODULUS - initial) + c
        ELSE p * amount
             + (IF c >= AsU16(overflow_start)
                THEN c - AsU16(overflow_start)
                ELSE (TIMER_MODULUS - overflow_start) + c)

\* x is a value of an unsigned type of 16, 32 or 64 bits
FitsU16(x) == x >= 0 /\ x \div 65536 = 0
FitsU32(x) == x >= 0 /\ (x \div 65536) \div 65536 = 0
FitsU64(x) == x >= 0 /\ (((x \div 65536) \div 65536) \div 65536) \div 65536 = 0

\* calc_now subtracting without the comparisons that guard the subtractions
calc_now_faults_unguarded(p, c, initial, amount) ==
    LET overflow_start == TIMER_MODULUS - amount
    IN  {f \in {"overflow_start", "first_period", "current_period"} :
            \/ f = "overflow_start" /\ ~FitsU32(overflow_start)
            \/ f = "first_period" /\ p = 0 /\ ~FitsU16(c - AsU16(initial))
            \/ f = "current_period" /\ p # 0
                 /\ ~FitsU16(c - AsU16(overflow_start))}

\* the operations of calc_now whose result does not fit the type it is
\* computed in (a panic of a checked build, a wrapped value otherwise); the
\* `as` casts truncate and are no fault
calc_now_faults(p, c, initial, amount) ==
    LET overflow_start == TIMER_MODULUS - amount
        wrapped == c < AsU16(overflow_start)
    IN  {f \in {"overflow_start", "first_period", "completed_periods",
                "current_period", "sum"} :
            \/ f = "overflow_start" /\ ~FitsU32(overflow_start)
            \/ f = "first_period" /\ p = 0 /\
                 IF c >= AsU16(initial)
                 THEN ~FitsU16(c - AsU16(initial))
                 ELSE \/ ~FitsU32(TIMER_MODULUS - initial)
                      \/ ~FitsU32((TIMER_MODULUS - initial) + c)
            \/ f = "completed_periods" /\ p # 0 /\ ~FitsU64(p * amount)
            \/ f = "current_period" /\ p # 0 /\
                 IF ~wrapped
                 THEN ~FitsU16(c - AsU16(overflow_start))
                 ELSE \/ ~FitsU32(TIMER_MODULUS - overflow_start)
                      \/ ~FitsU32((TIMER_MODULUS - overflow_start) + c)
            \/ f = "sum" /\ p # 0 /\
                 ~FitsU64(p * amount
                          + (IF ~wrapped
                             THEN c - AsU16(overflow_start)
                             ELSE (TIMER_MODULUS - overflow_start) + c))}

\* Timer::set_overflow_amount(n): the reload register gets 0u16.wrapping_sub(n)
ReloadValue(amount) == AsU16(TIMER_MODULUS - amount)

\* smallest deadline of a queue, u64::MAX when it is empty
MinDeadline(q) ==
    IF DOMAIN q = {} THEN U64_MAX
    ELSE CHOOSE d \in {q[h] : h \in DOMAIN q} : \A h \in DOMAIN q : d <= q[h]

\* next_expiration that wakes the due entries and leaves them queued
next_expiration_keeps_woken(q, now) ==
    LET keep == {h \in DOMAIN q : q[h] > now}
        rest == [h \in keep |-> q[h]]
    IN  [queue |-> q, woken |-> DOMAIN q \ keep, next |-> MinDeadline(rest)]

\* Queue::next_expiration(now): wakes and removes every entry whose deadline
\* is <= now and returns the smallest deadline left (u64::MAX if none)
next_expiration(q, now) ==
    LET keep == {h \in DOMAIN q : q[h] > now}
        rest == [h \in keep |-> q[h]]
    IN  [queue |-> rest, woken |-> DOMAIN q \ keep, next |-> MinDeadline(rest)]

\* Queue::schedule_wake(at, waker): a new entry, or an earlier deadline for a
\* queued one, changes the queue; a later deadline does not.  An equal
\* deadline is reported either way (eq), depending on the queue variant.
queue_schedule_wake(q, at, h, eq) ==
    IF h \notin DOMAIN q
    THEN [queue |-> [x \in DOMAIN q \cup {h} |-> IF x = h THEN at ELSE q[x]],
          changed |-> TRUE]
    ELSE IF at < q[h]
    THEN [queue |-> [q EXCEPT ![h] = at], changed |-> TRUE]
    ELSE [queue |-> q, changed |-> (at = q[h] /\ eq)]


(***************************************************************************)
(* State.                                                                  *)
(***************************************************************************)
VARIABLES
    \* the hardware timer
    counter,                \* TMnCNT_L, the live 16-bit count
    reload,                 \* the reload register written by set_overflow_amount
    running,                \* the timer is enabled (set_enabled(true))
    irq,                    \* the timer's bit of IF: an overflow is pending
    overflows,              \* overflows of the hardware counter since the start
    \* GbaTimeDriver
    period,                 \* AtomicU32
    initial_timer_value,    \* AtomicU32
    timer_overflow_amount,  \* AtomicU32
    configured,             \* embassy_agb::init has taken the peripherals
    timestamp,              \* AlarmState.timestamp
    queue,                  \* Queue: wake handle -> deadline
    timer,                  \* Option<Timer> is Some
    handler,                \* the overflow handler is installed
    \* mainline
    pc,                     \* position of mainline
    rd_period,              \* now(): the period loaded before the counter read
    at,                     \* schedule_wake: its deadline argument
    hnd,                    \* schedule_wake: its waker argument
    \* interrupt context
    ipc,                    \* position of the overflow handler
    \* either context (never both: the loops run with interrupts disabled)
    next,                   \* the local `next` of the retry loops
    \* observations
    lastNow,                \* the value the latest now() call returned
    chk,                    \* the handler's run of trigger_alarm, as observed
    sw,                     \* mainline's run of schedule_wake, as observed
    \* the executor (Executor::run)
    run_queue,              \* tasks woken and not yet taken by a scheduler pass
    batch,                  \* tasks the running scheduler pass has still to poll
    lastStep                \* the loop's latest step: "pass", "halt" or "none"

hw == <<counter, reload, running, irq, overflows>>
clock == <<period, initial_timer_value, timer_overflow_amount, configured>>
alarm == <<timestamp, queue>>
mainLocals == <<rd_period, at, hnd>>
executor == <<run_queue, batch, lastStep>>
vars == <<counter, reload, running, irq, overflows, period, initial_timer_value,
          timer_overflow_amount, configured, timestamp, queue, timer, handler, pc,
          rd_period, at, hnd, ipc, next, lastNow, chk, sw, run_queue, batch,
          lastStep>>

EmptyQueue == [h \in {} |-> 0]
NoChk == [first |-> 0, maxExp |-> 0, maxAll |-> 0, q0 |-> EmptyQueue]
NoSw == [first |-> 0, ts0 |-> 0, changed |-> FALSE]

\* static DRIVER: GbaTimeDriver = GbaTimeDriver { .. }, timer hardware off
Init ==
    /\ counter = 0 /\ reload = 0 /\ running = FALSE /\ irq = FALSE
    /\ overflows = 0
    /\ period = 0
    /\ initial_timer_value = 0
    /\ timer_overflow_amount = DEFAULT_TIMER_OVERFLOW_AMOUNT
    /\ configured = FALSE
    /\ timestamp = U64_MAX
    /\ queue = EmptyQueue
    /\ timer = FALSE /\ handler = FALSE
    /\ pc = "idle" /\ rd_period = 0 /\ at = 0 /\ hnd = 0
    /\ ipc = "none"
    /\ next = 0
    /\ lastNow = 0
    /\ chk = NoChk /\ sw = NoSw
    /\ run_queue = {} /\ batch = {} /\ lastStep = "none"

(***************************************************************************)
(* The hardware.                                                           *)
(***************************************************************************)
\* counts in one hardware overflow period (a reload of 0 gives 65536)
HwPeriod == TIMER_MODULUS - reload

\* the counter is far from both ends of a long overflow period
MidPeriod ==
    /\ counter - reload >= FineWindow
    /\ counter < TIMER_MODULUS - 1 - FineWindow

\* the count the timer shows after the next step of the counter: across the
\* middle of a long period it is advanced in one jump
TickTarget ==
    IF counter = TIMER_MODULUS - 1 THEN reload
    ELSE IF MidPeriod THEN TIMER_MODULUS - 1 - FineWindow
    ELSE counter + 1

\* The counter advances; 65535 -> reload value raises the overflow interrupt.
\* The middle of a long period passes only while mainline is between calls
\* and no handler runs: a call, a critical section or a handler lasts a few
\* counts.  Between set_enabled(true) and the read of the initial value lie a
\* few CPU cycles: at most one count (256 cycles) falls between them.
Tick ==
    /\ running
    /\ MidPeriod => pc = "idle" /\ ipc = "none"
    /\ pc = "init_capture" => counter = reload /\ overflows = 0
    /\ counter = TIMER_MODULUS - 1 => overflows < MaxOverflows
    /\ counter' = TickTarget
    /\ irq' = (irq \/ counter = TIMER_MODULUS - 1)
    /\ overflows' = IF counter = TIMER_MODULUS - 1 THEN overflows + 1 ELSE overflows
    /\ UNCHANGED <<executor, reload, running, clock, alarm, timer, handler, pc, mainLocals,
                   ipc, next, lastNow, chk, sw>>

\* hardware ticks since the timer was started, and the logical time they are
TrueHwTicks == overflows * HwPeriod + (counter - reload)
TrueNow == TrueHwTicks \div 2

\* positions of Executor::run's loop: before poll(), inside it, before
\* agb::halt(), and halted
LoopPositions == {"poll", "polling", "halt", "halted"}

\* interrupts recognised also while mainline holds a critical section
InterruptsEnabled_in_sections == ipc = "none"

\* interrupts are recognised: no critical section is held and no handler runs
InterruptsEnabled ==
    pc \in {"idle", "now_rd"} \cup LoopPositions /\ ipc = "none"
\* a pending overflow interrupt is taken before mainline's next instruction
IrqTaken == irq /\ handler /\ InterruptsEnabled
\* mainline executes: no handler runs and none is about to
MainRuns == ipc = "none" /\ ~IrqTaken

(***************************************************************************)
(* Clock reads.                                                            *)
(***************************************************************************)
\* read_timer_value reading the hardware counter without the timer handle
read_timer_value_reads_hardware == counter

\* read_timer_value
read_timer_value == IF timer THEN counter ELSE 0

\* now() with interrupts disabled: nothing separates its loads
NowValue == calc_now(period, read_timer_value, initial_timer_value,
                     timer_overflow_amount)

(***************************************************************************)
(* Configuration and initialisation.                                       *)
(***************************************************************************)
\* embassy_agb::init(config): configure_timer_frequency stores the configured
\* amount, before or after the executor has initialised the timer.  A second
\* call does not return (Peripherals::take panics).
Configure(v) ==
    /\ pc = "idle" /\ MainRuns
    /\ ~configured
    /\ configured' = TRUE
    /\ timer_overflow_amount' = v
    /\ UNCHANGED <<executor, hw, period, initial_timer_value, alarm, timer, handler, pc,
                   mainLocals, ipc, next, lastNow, chk, sw>>

\* init_timer, first half: inside the critical section the timer is given its
\* reload value, its interrupt is enabled and it is started
InitStart ==
    /\ pc = "idle" /\ MainRuns
    /\ ~running
    /\ reload' = ReloadValue(timer_overflow_amount)
    /\ counter' = ReloadValue(timer_overflow_amount)
    /\ running' = TRUE
    /\ pc' = "init_capture"
    /\ UNCHANGED <<executor, irq, overflows, clock, alarm, timer, handler, mainLocals,
                   ipc, next, lastNow, chk, sw>>

\* init_timer ending without `*timer_ref = Some(timer)`
InitCapture_drops_timer ==
    /\ pc = "init_capture"
    /\ initial_timer_value' = counter
    /\ handler' = TRUE
    /\ timer' = FALSE
    /\ pc' = "idle"
    /\ UNCHANGED <<executor, hw, period, timer_overflow_amount, configured, alarm, mainLocals, ipc,
                   next, lastNow, chk, sw>>

\* init_timer storing the value the timer showed before it was started
InitCapture_before_start ==
    /\ pc = "init_capture"
    /\ initial_timer_value' = 0
    /\ handler' = TRUE
    /\ timer' = TRUE
    /\ pc' = "idle"
    /\ UNCHANGED <<executor, hw, period, timer_overflow_amount, configured, alarm, mainLocals, ipc,
                   next, lastNow, chk, sw>>

\* init_timer, second half: the initial value is captured, the handler is
\* installed, the timer is stored and the critical section ends
InitCapture ==
    /\ pc = "init_capture"
    /\ initial_timer_value' = counter
    /\ handler' = TRUE
    /\ timer' = TRUE
    /\ pc' = "idle"
    /\ UNCHANGED <<executor, hw, period, timer_overflow_amount, configured, alarm, mainLocals, ipc,
                   next, lastNow, chk, sw>>

(***************************************************************************)
(* Driver::now from mainline, interrupts enabled.                          *)
(***************************************************************************)
\* the loads of period, initial_timer_value and timer_overflow_amount; only
\* period can change before the counter is read
NowLoad ==
    /\ pc = "idle" /\ MainRuns
    /\ rd_period' = period
    /\ pc' = "now_rd"
    /\ UNCHANGED <<executor, hw, clock, alarm, timer, handler, at, hnd, ipc, next,
                   lastNow, chk, sw>>

\* now() loading period again at the counter read
NowRead_loads_period_again ==
    /\ pc = "now_rd" /\ MainRuns
    /\ lastNow' = calc_now(period, read_timer_value, initial_timer_value,
                           timer_overflow_amount)
    /\ rd_period' = 0
    /\ pc' = "idle"
    /\ UNCHANGED <<executor, hw, clock, alarm, timer, handler, at, hnd, ipc, next, chk, sw>>

\* read_timer_value and calc_now
NowRead ==
    /\ pc = "now_rd" /\ MainRuns
    /\ lastNow' = calc_now(rd_period, read_timer_value, initial_timer_value,
                           timer_overflow_amount)
    /\ rd_period' = 0
    /\ pc' = "idle"
    /\ UNCHANGED <<executor, hw, clock, alarm, timer, handler, at, hnd, ipc, next, chk, sw>>

(***************************************************************************)
(* The alarm: set_alarm and the retry loop of schedule_wake (mainline).    *)
(***************************************************************************)
\* set_alarm comparing with `<`: a timestamp equal to now is recorded
set_alarm_due_accepted(ts, now) ==
    IF ts < now THEN [timestamp |-> U64_MAX, ok |-> FALSE]
                ELSE [timestamp |-> ts, ok |-> TRUE]

\* set_alarm(cs, timestamp) reading `now`: the timestamp is recorded, and reset
\* to u64::MAX with result false when it is already due
set_alarm(ts, now) ==
    IF ts <= now THEN [timestamp |-> U64_MAX, ok |-> FALSE]
                 ELSE [timestamp |-> ts, ok |-> TRUE]

\* deadlines a task asks for: the time it last read plus a delay
WakeTimes == {lastNow + d : d \in 0 .. MaxDelay}

\* schedule_wake that re-evaluates whatever the queue answers
SwCall_always_reeval(a, h, eq) ==
    /\ pc = "idle" /\ MainRuns
    /\ LET r == queue_schedule_wake(queue, a, h, eq)
       IN  /\ queue' = r.queue
           /\ sw' = [first |-> -1, ts0 |-> timestamp, changed |-> r.changed]
    /\ pc' = "sw_exp"
    /\ at' = a /\ hnd' = h
    /\ UNCHANGED <<executor, hw, clock, timestamp, timer, handler, rd_period, ipc, next,
                   lastNow, chk>>

\* schedule_wake that ignores the queue's answer and never re-evaluates
SwCall_no_reeval(a, h, eq) ==
    /\ pc = "idle" /\ MainRuns
    /\ LET r == queue_schedule_wake(queue, a, h, eq)
       IN  /\ queue' = r.queue
           /\ sw' = [first |-> -1, ts0 |-> timestamp, changed |-> r.changed]
    /\ pc' = "sw_ret"
    /\ at' = a /\ hnd' = h
    /\ UNCHANGED <<executor, hw, clock, timestamp, timer, handler, rd_period, ipc, next,
                   lastNow, chk>>

\* schedule_wake: the critical section is entered and the queue updated; an
\* unchanged queue ends the call
SwCall(a, h, eq) ==
    /\ pc = "idle" /\ MainRuns
    /\ LET r == queue_schedule_wake(queue, a, h, eq)
       IN  /\ queue' = r.queue
           /\ sw' = [first |-> -1, ts0 |-> timestamp, changed |-> r.changed]
           /\ pc' = IF r.changed THEN "sw_exp" ELSE "sw_ret"
    /\ at' = a /\ hnd' = h
    /\ UNCHANGED <<executor, hw, clock, timestamp, timer, handler, rd_period, ipc, next,
                   lastNow, chk>>

\* next = queue.next_expiration(self.now())
SwExpire ==
    /\ pc = "sw_exp"
    /\ LET n == NowValue
           r == next_expiration(queue, n)
       IN  /\ queue' = r.queue
           /\ next' = r.next
           /\ lastNow' = n
           /\ sw' = IF sw.first = -1 THEN [sw EXCEPT !.first = n] ELSE sw
    /\ pc' = "sw_set"
    /\ UNCHANGED <<executor, hw, clock, timestamp, timer, handler, mainLocals, ipc, chk>>

\* schedule_wake with `if` for `while`: set_alarm is tried once
SwSet_no_retry ==
    /\ pc = "sw_set"
    /\ LET n == NowValue
           r == set_alarm(next, n)
       IN  /\ timestamp' = r.timestamp
           /\ lastNow' = n
    /\ pc' = "sw_ret"
    /\ UNCHANGED <<executor, hw, clock, queue, timer, handler, mainLocals, ipc, next,
                   chk, sw>>

\* while !self.set_alarm(cs, next)
SwSet ==
    /\ pc = "sw_set"
    /\ LET n == NowValue
           r == set_alarm(next, n)
       IN  /\ timestamp' = r.timestamp
           /\ lastNow' = n
           /\ pc' = IF r.ok THEN "sw_ret" ELSE "sw_exp"
    /\ UNCHANGED <<executor, hw, clock, queue, timer, handler, mainLocals, ipc, next,
                   chk, sw>>

\* the critical section ends and schedule_wake returns
SwReturn ==
    /\ pc = "sw_ret"
    /\ pc' = "idle"
    /\ at' = 0 /\ hnd' = 0 /\ next' = 0 /\ sw' = NoSw
    /\ UNCHANGED <<executor, hw, clock, alarm, timer, handler, rd_period, ipc, lastNow, chk>>

(***************************************************************************)
(* The overflow interrupt: on_interrupt and trigger_alarm.  The handler    *)
(* runs with interrupts disabled and to its end before mainline resumes.   *)
(***************************************************************************)
\* an increment that counts one overflow twice
fetch_add_twice(p) == p + 2

\* AtomicU32::fetch_add(1): wraps at 2^32, which no bounded run reaches
fetch_add(p) == p + 1

\* on_interrupt that increments period and returns without trigger_alarm
IsrEnter_no_check ==
    /\ IrqTaken
    /\ irq' = FALSE
    /\ period' = fetch_add(period)
    /\ chk' = [first |-> -1, maxExp |-> -1, maxAll |-> -1, q0 |-> queue]
    /\ ipc' = "ret"
    /\ UNCHANGED <<executor, counter, reload, running, overflows, initial_timer_value,
                   timer_overflow_amount, configured, alarm, timer, handler, pc,
                   mainLocals, next, lastNow, sw>>

\* on_interrupt that enters trigger_alarm with period not yet incremented
IsrEnter_check_before_increment ==
    /\ IrqTaken
    /\ irq' = FALSE
    /\ period' = period
    /\ timestamp' = U64_MAX
    /\ chk' = [first |-> -1, maxExp |-> -1, maxAll |-> -1, q0 |-> queue]
    /\ ipc' = "exp"
    /\ UNCHANGED <<executor, counter, reload, running, overflows, initial_timer_value,
                   timer_overflow_amount, configured, queue, timer, handler, pc, mainLocals,
                   next, lastNow, sw>>

\* the interrupt is taken and acknowledged; period is incremented, the
\* critical section entered and the timestamp reset
IsrEnter ==
    /\ IrqTaken
    /\ irq' = FALSE
    /\ period' = fetch_add(period)
    /\ timestamp' = U64_MAX
    /\ chk' = [first |-> -1, maxExp |-> -1, maxAll |-> -1, q0 |-> queue]
    /\ ipc' = "exp"
    /\ UNCHANGED <<executor, counter, reload, running, overflows, initial_timer_value,
                   timer_overflow_amount, configured, queue, timer, handler, pc, mainLocals,
                   next, lastNow, sw>>

\* next = queue.next_expiration(self.now())
IsrExpire ==
    /\ ipc = "exp"
    /\ LET n == NowValue
           r == next_expiration(queue, n)
       IN  /\ queue' = r.queue
           /\ next' = r.next
           /\ lastNow' = n
           /\ chk' = [chk EXCEPT !.first = IF @ = -1 THEN n ELSE @,
                                 !.maxExp = IF n > @ THEN n ELSE @,
                                 !.maxAll = IF n > @ THEN n ELSE @]
    /\ ipc' = "set"
    /\ UNCHANGED <<executor, hw, clock, timestamp, timer, handler, pc, mainLocals, sw>>

\* trigger_alarm with `if` for `while`: set_alarm is tried once
IsrSet_no_retry ==
    /\ ipc = "set"
    /\ LET n == NowValue
           r == set_alarm(next, n)
       IN  /\ timestamp' = r.timestamp
           /\ lastNow' = n
           /\ chk' = [chk EXCEPT !.maxAll = IF n > @ THEN n ELSE @]
    /\ ipc' = "ret"
    /\ UNCHANGED <<executor, hw, clock, queue, timer, handler, pc, mainLocals, next, sw>>

\* while !self.set_alarm(cs, next)
IsrSet ==
    /\ ipc = "set"
    /\ LET n == NowValue
           r == set_alarm(next, n)
       IN  /\ timestamp' = r.timestamp
           /\ lastNow' = n
           /\ chk' = [chk EXCEPT !.maxAll = IF n > @ THEN n ELSE @]
           /\ ipc' = IF r.ok THEN "ret" ELSE "exp"
    /\ UNCHANGED <<executor, hw, clock, queue, timer, handler, pc, mainLocals, next, sw>>

\* the critical section ends and the handler returns
IsrReturn ==
    /\ ipc = "ret"
    /\ ipc' = "none"
    /\ next' = 0 /\ chk' = NoChk
    /\ UNCHANGED <<executor, hw, clock, alarm, timer, handler, pc, mainLocals, lastNow, sw>>

(***************************************************************************)
(* The driver with its hardware.                                           *)
(***************************************************************************)
Next ==
    \/ Tick
    \/ \E v \in OverflowAmounts : Configure(v)
    \/ InitStart
    \/ InitCapture
    \/ NowLoad
    \/ NowRead
    \/ \E a \in WakeTimes, h \in Handles, eq \in BOOLEAN : SwCall(a, h, eq)
    \/ SwExpire
    \/ SwSet
    \/ SwReturn
    \/ IsrEnter
    \/ IsrExpire
    \/ IsrSet
    \/ IsrReturn

Spec == Init /\ [][Next]_vars

(***************************************************************************)
(* calc_now on its own: the arguments are drawn from sample sets that hold *)
(* the ends of the 16-bit range, both sides of the overflow boundary of    *)
(* every sampled amount, and the values of the documented examples.        *)
(***************************************************************************)
CalcAmounts == {0, 1, 2, DEFAULT_TIMER_OVERFLOW_AMOUNT, TIMER_MODULUS - 1}
CalcCounters ==
    {0, 1, 10, 1000, 1050, TIMER_MODULUS - 2, TIMER_MODULUS - 1}
    \cup {TIMER_MODULUS - DEFAULT_TIMER_OVERFLOW_AMOUNT + d : d \in {-1, 0, 1}}

\* the driver's other state, as constructed
Untouched ==
    /\ reload = 0 /\ running = FALSE /\ irq = FALSE /\ overflows = 0
    /\ configured = FALSE
    /\ timestamp = U64_MAX /\ queue = EmptyQueue
    /\ timer = FALSE /\ handler = FALSE
    /\ rd_period = 0 /\ at = 0 /\ hnd = 0 /\ ipc = "none" /\ next = 0
    /\ chk = NoChk /\ sw = NoSw
    /\ run_queue = {} /\ batch = {} /\ lastStep = "none"

InitCalc ==
    /\ period \in 0 .. MaxCalcPeriod
    /\ counter \in CalcCounters
    /\ initial_timer_value \in CalcCounters
    /\ timer_overflow_amount \in CalcAmounts
    /\ lastNow = 0
    /\ pc = "calc"
    /\ Untouched

\* calc_now(period, counter, initial_timer_value, timer_overflow_amount)
CalcApply ==
    /\ pc = "calc"
    /\ lastNow' = calc_now(period, counter, initial_timer_value,
                           timer_overflow_amount)
    /\ pc' = "done"
    /\ UNCHANGED <<executor, hw, clock, alarm, timer, handler, mainLocals, ipc, next,
                   chk, sw>>

NextCalc == CalcApply

SpecCalc == InitCalc /\ [][NextCalc]_vars

(***************************************************************************)
(* calc_now along the hardware's own sequence of (period, counter) pairs:  *)
(* the timer runs with the configured amount, the initial value is the one *)
(* captured at the start, and period counts the overflows exactly.         *)
(***************************************************************************)
InitSeq ==
    /\ timer_overflow_amount \in OverflowAmounts \cup (0 .. MaxSeqAmount)
    /\ reload = ReloadValue(timer_overflow_amount)
    /\ \E d \in {0, 1} :
          /\ reload + d < TIMER_MODULUS
          /\ counter = reload + d
          /\ initial_timer_value = reload + d
    /\ period = 0 /\ overflows = 0
    /\ running = TRUE /\ irq = FALSE
    /\ configured = FALSE
    /\ timestamp = U64_MAX /\ queue = EmptyQueue
    /\ timer = TRUE /\ handler = TRUE
    /\ pc = "seq" /\ rd_period = 0 /\ at = 0 /\ hnd = 0 /\ ipc = "none"
    /\ next = 0 /\ lastNow = 0
    /\ chk = NoChk /\ sw = NoSw
    /\ run_queue = {} /\ batch = {} /\ lastStep = "none"

\* the counter advances; period is incremented exactly when it wraps
SeqStep ==
    /\ pc = "seq"
    /\ counter = TIMER_MODULUS - 1 => overflows < MaxOverflows
    /\ counter' = TickTarget
    /\ overflows' = IF counter = TIMER_MODULUS - 1 THEN overflows + 1 ELSE overflows
    /\ period' = IF counter = TIMER_MODULUS - 1 THEN fetch_add(period) ELSE period
    /\ lastNow' = calc_now(period', counter', initial_timer_value,
                           timer_overflow_amount)
    /\ UNCHANGED <<executor, reload, running, irq, initial_timer_value,
                   timer_overflow_amount, configured, alarm, timer, handler, pc,
                   mainLocals, ipc, next, chk, sw>>

NextSeq == SeqStep

SpecSeq == InitSeq /\ [][NextSeq]_vars

(***************************************************************************)
(* Executor::run: the time driver is initialised, the init callback spawns *)
(* the tasks, and the loop polls and halts for ever.  The handler and a    *)
(* task's call of schedule_wake each run to their end within one count of  *)
(* the timer, so each is one step here.  The hardware overflows are not    *)
(* counted, so that the timer runs for ever.                               *)
(***************************************************************************)
\* the counter advances; 65535 -> reload value raises the overflow interrupt
IdleTick ==
    /\ running
    /\ pc = "init_capture" => counter = reload
    /\ counter' = TickTarget
    /\ irq' = (irq \/ counter = TIMER_MODULUS - 1)
    /\ UNCHANGED <<executor, reload, running, overflows, clock, alarm, timer,
                   handler, pc, mainLocals, ipc, next, lastNow, chk, sw>>

\* the overflow interrupt taken during a halt that leaves the processor halted
IdleIsr_sleeps_on ==
    /\ IrqTaken
    /\ irq' = FALSE
    /\ period' = fetch_add(period) % IdlePeriods
    /\ LET n == calc_now(period', read_timer_value, initial_timer_value,
                         timer_overflow_amount)
           r == next_expiration(queue, n)
       IN  /\ queue' = r.queue
           /\ timestamp' = set_alarm(r.next, n).timestamp
           /\ run_queue' = run_queue \cup r.woken
           /\ lastNow' = n
    /\ pc' = pc
    /\ UNCHANGED <<counter, reload, running, overflows, initial_timer_value,
                   timer_overflow_amount, configured, timer, handler,
                   mainLocals, ipc, next, chk, sw, batch, lastStep>>

\* on_interrupt with an increment of period that stops at the largest value
IdleIsr_period_saturates ==
    /\ IrqTaken
    /\ irq' = FALSE
    /\ period' = IF period = IdlePeriods - 1 THEN period ELSE fetch_add(period)
    /\ LET n == calc_now(period', read_timer_value, initial_timer_value,
                         timer_overflow_amount)
           r == next_expiration(queue, n)
       IN  /\ queue' = r.queue
           /\ timestamp' = set_alarm(r.next, n).timestamp
           /\ run_queue' = run_queue \cup r.woken
           /\ lastNow' = n
    /\ pc' = IF pc = "halted" THEN "poll" ELSE pc
    /\ UNCHANGED <<counter, reload, running, overflows, initial_timer_value,
                   timer_overflow_amount, configured, timer, handler,
                   mainLocals, ipc, next, chk, sw, batch, lastStep>>

\* on_interrupt with trigger_alarm: period is incremented, the due entries
\* are woken (their tasks enter the run queue) and the alarm is set; the
\* interrupt ends a halt.  now() is the same in next_expiration and
\* set_alarm, so set_alarm succeeds at once.
IdleIsr ==
    /\ IrqTaken
    /\ irq' = FALSE
    /\ period' = fetch_add(period) % IdlePeriods
    /\ LET n == calc_now(period', read_timer_value, initial_timer_value,
                         timer_overflow_amount)
           r == next_expiration(queue, n)
       IN  /\ queue' = r.queue
           /\ timestamp' = set_alarm(r.next, n).timestamp
           /\ run_queue' = run_queue \cup r.woken
           /\ lastNow' = n
    /\ pc' = IF pc = "halted" THEN "poll" ELSE pc
    /\ UNCHANGED <<counter, reload, running, overflows, initial_timer_value,
                   timer_overflow_amount, configured, timer, handler,
                   mainLocals, ipc, next, chk, sw, batch, lastStep>>

\* run calling the init callback before time_driver::init()
RunInit_before_driver(spawned) ==
    /\ pc = "idle" /\ MainRuns
    /\ ~timer
    /\ run_queue' = spawned
    /\ pc' = "poll"
    /\ UNCHANGED <<hw, clock, alarm, timer, handler, mainLocals, ipc, next,
                   lastNow, chk, sw, batch, lastStep>>

\* init(self.inner.spawner()): the callback spawns tasks, which enter the run
\* queue; the loop is entered
RunInit(spawned) ==
    /\ pc = "idle" /\ MainRuns
    /\ timer
    /\ run_queue' = spawned
    /\ pc' = "poll"
    /\ UNCHANGED <<hw, clock, alarm, timer, handler, mainLocals, ipc, next,
                   lastNow, chk, sw, batch, lastStep>>

\* self.inner.poll(): the pass takes the run queue as it is
PollStart ==
    /\ pc = "poll" /\ MainRuns
    /\ batch' = run_queue
    /\ run_queue' = {}
    /\ lastStep' = "pass"
    /\ pc' = "polling"
    /\ UNCHANGED <<hw, clock, alarm, timer, handler, mainLocals, ipc, next,
                   lastNow, chk, sw>>

\* the pass polls task h, which asks to be woken at now() + d: schedule_wake
\* in its critical section, entries already due woken at once
PollTask(h, d) ==
    /\ pc = "polling" /\ MainRuns
    /\ h \in batch
    /\ LET n == NowValue
           s == queue_schedule_wake(queue, n + d, h, TRUE)
           r == next_expiration(s.queue, n)
       IN  /\ queue' = IF s.changed THEN r.queue ELSE s.queue
           /\ timestamp' = IF s.changed THEN set_alarm(r.next, n).timestamp
                                        ELSE timestamp
           /\ run_queue' = IF s.changed THEN run_queue \cup r.woken
                                        ELSE run_queue
           /\ lastNow' = n
    /\ batch' = batch \ {h}
    /\ UNCHANGED <<hw, clock, timer, handler, pc, mainLocals, ipc, next, chk,
                   sw, lastStep>>

\* poll() followed by another poll() while tasks are ready (the halt skipped)
PollReturn_skips_halt ==
    /\ pc = "polling" /\ MainRuns
    /\ batch = {}
    /\ pc' = IF run_queue # {} THEN "poll" ELSE "halt"
    /\ UNCHANGED <<hw, clock, alarm, timer, handler, mainLocals, ipc, next,
                   lastNow, chk, sw, run_queue, batch, lastStep>>

\* a loop that is left when no task is ready or waiting
PollReturn_ends_without_tasks ==
    /\ pc = "polling" /\ MainRuns
    /\ batch = {}
    /\ pc' = IF run_queue = {} /\ DOMAIN queue = {} THEN "done" ELSE "halt"
    /\ UNCHANGED <<hw, clock, alarm, timer, handler, mainLocals, ipc, next,
                   lastNow, chk, sw, run_queue, batch, lastStep>>

\* poll() returns when it has polled the tasks it took
PollReturn ==
    /\ pc = "polling" /\ MainRuns
    /\ batch = {}
    /\ pc' = "halt"
    /\ UNCHANGED <<hw, clock, alarm, timer, handler, mainLocals, ipc, next,
                   lastNow, chk, sw, run_queue, batch, lastStep>>

\* Stop mode requested for Halt mode: the timer stops with the processor
HaltRequest_stop ==
    /\ pc = "halt" /\ MainRuns
    /\ lastStep' = "halt"
    /\ running' = FALSE
    /\ pc' = "halted"
    /\ UNCHANGED <<counter, reload, irq, overflows, clock, alarm, timer, handler,
                   mainLocals, ipc, next, lastNow, chk, sw, run_queue, batch>>

\* agb::halt(): the processor stops until an interrupt is taken; an interrupt
\* already pending is taken before the halt is requested
HaltRequest ==
    /\ pc = "halt" /\ MainRuns
    /\ lastStep' = "halt"
    /\ pc' = "halted"
    /\ UNCHANGED <<hw, clock, alarm, timer, handler, mainLocals, ipc, next,
                   lastNow, chk, sw, run_queue, batch>>

\* an interrupt of another device ends a halt; its handler is no part of the
\* driver and leaves the driver's state alone
DeviceInterrupt ==
    /\ pc = "halted" /\ ipc = "none"
    /\ pc' = "poll"
    /\ UNCHANGED <<executor, hw, clock, alarm, timer, handler, mainLocals, ipc,
                   next, lastNow, chk, sw>>

NextIdle ==
    \/ IdleTick
    \/ InitStart
    \/ InitCapture
    \/ \E spawned \in SUBSET Handles : RunInit(spawned)
    \/ PollStart
    \/ \E h \in Handles, d \in 0 .. MaxDelay : PollTask(h, d)
    \/ PollReturn
    \/ HaltRequest
    \/ IdleIsr
    \/ DeviceInterrupt

\* the timer counts and the handler is entered whenever they can; mainline
\* executes between the interrupts, which are at least a timer count apart
SpecIdle ==
    /\ Init /\ [][NextIdle]_vars
    /\ WF_vars(IdleTick) /\ WF_vars(IdleIsr)
    /\ SF_vars(InitStart) /\ SF_vars(InitCapture)
    /\ SF_vars(\E spawned \in SUBSET Handles : RunInit(spawned))
    /\ SF_vars(PollStart)
    /\ SF_vars(\E h \in Handles, d \in 0 .. MaxDelay : PollTask(h, d))
    /\ SF_vars(PollReturn) /\ SF_vars(HaltRequest)

(***************************************************************************)
(* The retry loops on their own: the driver is initialised, a critical     *)
(* section has been entered and one of the two loops is about to start,    *)
(* over any queue of the sampled deadlines.  The timer keeps counting      *)
(* while the loop runs; its overflows raise the interrupt, which stays     *)
(* pending, so that period keeps its value.                                *)
(***************************************************************************)
\* queues of the sampled deadlines
RetryQueues ==
    UNION {[hs -> 0 .. MaxRetryDeadline] : hs \in SUBSET Handles}

\* the loop of schedule_wake starts after the queue took a new entry; the
\* loop of trigger_alarm starts after on_interrupt incremented period
InitRetry ==
    /\ timer_overflow_amount \in {ShortAmount, DEFAULT_TIMER_OVERFLOW_AMOUNT}
    /\ reload = ReloadValue(timer_overflow_amount)
    /\ initial_timer_value = reload
    /\ counter \in {reload, TIMER_MODULUS - 2, TIMER_MODULUS - 1}
    /\ running = TRUE /\ irq = FALSE /\ overflows = 0
    /\ configured = FALSE
    /\ timestamp = U64_MAX
    /\ queue \in RetryQueues
    /\ timer = TRUE /\ handler = TRUE
    /\ rd_period = 0 /\ at = 0 /\ hnd = 0
    /\ next = 0 /\ lastNow = 0
    /\ \/ /\ pc = "sw_exp" /\ ipc = "none"
          /\ period \in 0 .. 1
          /\ DOMAIN queue # {}
          /\ sw = [first |-> -1, ts0 |-> U64_MAX, changed |-> TRUE]
          /\ chk = NoChk
       \/ /\ pc = "idle" /\ ipc = "exp"
          /\ period = 1
          /\ sw = NoSw
          /\ chk = [first |-> -1, maxExp |-> -1, maxAll |-> -1, q0 |-> queue]
    /\ run_queue = {} /\ batch = {} /\ lastStep = "none"

\* the counter advances; the middle of a long period passes only outside
\* the critical sections
RetryTick ==
    /\ MidPeriod => pc = "idle" /\ ipc = "none"
    /\ IdleTick

NextRetry ==
    \/ RetryTick
    \/ SwExpire
    \/ SwSet
    \/ SwReturn
    \/ IsrExpire
    \/ IsrSet
    \/ IsrReturn

\* the timer runs and the code of the loops executes
SpecRetry ==
    /\ InitRetry /\ [][NextRetry]_vars
    /\ WF_vars(RetryTick)
    /\ WF_vars(SwExpire) /\ WF_vars(SwSet) /\ WF_vars(SwReturn)
    /\ WF_vars(IsrExpire) /\ WF_vars(IsrSet) /\ WF_vars(IsrReturn)

(***************************************************************************)
(* Claims.                                                                 *)
(***************************************************************************)
\* ts is the smallest deadline of q, u64::MAX for an empty q
IsNextDeadline(ts, q) ==
    IF DOMAIN q = {} THEN ts = U64_MAX
    ELSE /\ \E h \in DOMAIN q : q[h] = ts
         /\ \A h \in DOMAIN q : ts <= q[h]

\* C1: successive calls of now(), from mainline or from the handler, return
\* non-decreasing values: no call returns less than the call before it.
C1_NowNeverDecreases == [][lastNow' >= lastNow]_vars

\* C2: along the hardware's sequence of (period, counter) pairs, with the
\* initial value and the overflow amount fixed, calc_now never decreases.
C2_CalcNowMonotonicAlongHardware ==
    [][calc_now(period', counter', initial_timer_value', timer_overflow_amount')
         >= calc_now(period, counter, initial_timer_value, timer_overflow_amount)]_vars

\* C3: for period >= 1 calc_now is
\* floor((period * L + ((counter - (65536 - L)) mod 65536)) / 2); at the
\* boundary the current period adds 0 (period 3, L 64, counter 65472: 96
\* logical ticks), below it (65536 - boundary) + counter (period 1, L 64,
\* counter 10: 138 hardware ticks, 69 logical ticks).
C3_LaterPeriods ==
    (pc = "done" /\ period >= 1) =>
        /\ lastNow = (period * timer_overflow_amount
                      + ((counter - (TIMER_MODULUS - timer_overflow_amount))
                           % TIMER_MODULUS)) \div 2
        /\ (period = 3 /\ timer_overflow_amount = 64 /\ counter = 65472)
              => lastNow = 96
        /\ (period = 1 /\ timer_overflow_amount = 64 /\ counter = 10)
              => lastNow = 138 \div 2

C3_Witness ==
    /\ pc = "done" /\ period = 3 /\ timer_overflow_amount = 64
    /\ counter = 65472 /\ lastNow = 96

\* C4: for period = 0 calc_now is floor(((counter - initial) mod 65536) / 2),
\* whatever the overflow amount, also when counter < initial (initial 1000,
\* counter 1050: 50 hardware ticks, 25 logical ticks).
C4_FirstPeriod ==
    (pc = "done" /\ period = 0) =>
        /\ lastNow = ((counter - initial_timer_value) % TIMER_MODULUS) \div 2
        /\ (initial_timer_value = 1000 /\ counter = 1050) => lastNow = 25

C4_Witness ==
    /\ pc = "done" /\ period = 0 /\ counter < initial_timer_value
    /\ lastNow = (TIMER_MODULUS - initial_timer_value + counter) \div 2
    /\ lastNow > 0

\* C5: a wake with deadline d is signaled no later than the first periodic
\* check that runs at or after logical time d: every run of the overflow
\* handler makes a check, and when it has completed no entry whose deadline
\* is <= the now() value the check started with is still pending.
C5_DueAtCheckIsSignaled ==
    ipc = "ret" =>
        /\ chk.first >= 0
        /\ \A h \in DOMAIN queue : queue[h] > chk.first

C5_Witness ==
    /\ ipc = "ret"
    /\ \E h \in DOMAIN chk.q0 :
          /\ chk.q0[h] > 0 /\ chk.q0[h] <= chk.first
          /\ h \notin DOMAIN queue

\* C6: no wake handle is signaled early: an entry with deadline d leaves the
\* queue (is signaled, by a periodic check or by schedule_wake) only when the
\* logical time that has truly elapsed since the timer started is >= d.
C6_NoEarlySignal ==
    [][\A h \in DOMAIN queue : h \notin DOMAIN queue' => queue[h] <= TrueNow]_vars

\* C7: when schedule_wake(at, handle) returns for a deadline earlier than the
\* timestamp tracked before the call, the handle has been signaled or the
\* tracked timestamp is <= at.
C7_EarlierDeadlineIsTracked ==
    (pc = "sw_ret" /\ at < sw.ts0) => (hnd \notin DOMAIN queue \/ timestamp <= at)

C7_Witness ==
    /\ pc = "sw_ret" /\ at < sw.ts0 /\ sw.ts0 < U64_MAX
    /\ hnd \in DOMAIN queue /\ timestamp = at

\* the documented example: deadlines 100, 50 and 200
ExampleQueue == (1 :> 100) @@ (2 :> 50) @@ (3 :> 200)

\* C8 (as stated): the periodic check signals exactly the entries whose
\* deadline is <= the now it is run with, and leaves the smallest remaining
\* deadline as the timestamp.
C8_SignalsExactlyDueAtStart ==
    ipc = "ret" =>
        /\ DOMAIN chk.q0 \ DOMAIN queue
             = {h \in DOMAIN chk.q0 : chk.q0[h] <= chk.first}
        /\ IsNextDeadline(timestamp, queue)

\* C8 (amended): the periodic check reads now() itself, once per iteration of
\* its retry loop.  It signals every entry whose deadline is <= the now()
\* value it reads first, and exactly the entries whose deadline is <= the
\* greatest now() value it expired entries with; the entries it leaves are
\* unchanged and the smallest of their deadlines is the timestamp (u64::MAX
\* if none is left).  Deadlines 100, 50, 200 checked at now = 60: the 50
\* entry is signaled and the timestamp is 100.
C8_SignalsDueUpToLatestRead ==
    /\ ipc = "ret" =>
          /\ \A h \in DOMAIN chk.q0 :
                chk.q0[h] <= chk.first => h \notin DOMAIN queue
          /\ DOMAIN chk.q0 \ DOMAIN queue
               = {h \in DOMAIN chk.q0 : chk.q0[h] <= chk.maxExp}
          /\ \A h \in DOMAIN queue : h \in DOMAIN chk.q0 /\ queue[h] = chk.q0[h]
          /\ IsNextDeadline(timestamp, queue)
    /\ LET r == next_expiration(ExampleQueue, 60)
       IN  /\ r.woken = {2}
           /\ DOMAIN r.queue = {1, 3}
           /\ set_alarm(r.next, 60) = [timestamp |-> 100, ok |-> TRUE]

C8_Witness ==
    /\ ipc = "ret"
    /\ \E h \in DOMAIN chk.q0 \ DOMAIN queue, g \in DOMAIN queue :
          /\ chk.q0[h] <= chk.first
          /\ queue[g] > chk.maxExp
          /\ timestamp = queue[g]

\* C9: an entry that a check (its retry iterations included) sees with
\* deadline <= now is signaled before the check completes: no entry left
\* pending has a deadline <= a now() value the check has read.
C9_SeenDueIsSignaledInSameCheck ==
    ipc = "ret" => \A h \in DOMAIN queue : queue[h] > chk.maxAll

\* C10: schedule_wake with a deadline already <= now() returns, with the
\* alarm state intact (the timestamp is the smallest pending deadline); the
\* entry it registered has been expired by the call's own check and is not
\* left pending.
C10_PastDeadlineExpires ==
    pc = "sw_ret" =>
        /\ IsNextDeadline(timestamp, queue)
        /\ (sw.changed /\ at <= sw.first) => hnd \notin DOMAIN queue
        /\ hnd \in DOMAIN queue => queue[hnd] <= at

C10_Witness ==
    /\ pc = "sw_ret" /\ sw.changed /\ at <= sw.first /\ lastNow > 0
    /\ hnd \notin DOMAIN queue /\ DOMAIN queue # {}

\* C11: the idle loop loses no wake-up: with the timer running and the
\* interrupts delivered, a task that was signaled (by the handler or by
\* schedule_wake) and waits in the run queue is eventually taken by a
\* scheduler pass; the loop does not stay halted for ever over it.
C11_SignaledIsEventuallyPolled ==
    \A h \in Handles : (h \in run_queue) ~> (h \in batch)

C11_Witness ==
    /\ pc = "halted" /\ run_queue # {} /\ ~irq

C13_LoopRunsForEver ==
    /\ [][(pc \in LoopPositions) => (pc' \in LoopPositions)]_vars
    /\ []<>(pc = "poll") /\ []<>(pc = "polling")

C13_Witness ==
    /\ pc = "polling" /\ lastStep = "pass" /\ period = IdlePeriods - 1

\* C14: once the time driver is initialised (the timer configured, started
\* and stored), the overflow amount that now() computes with never changes.
C14_AmountConstantAfterInit ==
    [][timer => timer_overflow_amount' = timer_overflow_amount]_vars

\* C15: the conversion to logical ticks only rounds down: twice the result
\* of calc_now is at most the elapsed hardware ticks it computed, and falls
\* short of them by at most one.
C15_ConversionRoundsDown ==
    pc = "done" =>
        LET e == hardware_ticks_elapsed(period, counter, initial_timer_value,
                                        timer_overflow_amount)
        IN  2 * lastNow <= e /\ e <= 2 * lastNow + 1

C15_Witness ==
    /\ pc = "done" /\ lastNow > 0
    /\ hardware_ticks_elapsed(period, counter, initial_timer_value,
                              timer_overflow_amount) = 2 * lastNow + 1

\* C16: calc_now has no error path: for every period, counter, initial value
\* and overflow amount (0 included) no subtraction falls below zero, no
\* intermediate value exceeds its type, and the result fits 64 bits.
C16_NoArithmeticFault ==
    pc = "done" =>
        /\ calc_now_faults(period, counter, initial_timer_value,
                           timer_overflow_amount) = {}
        /\ FitsU64(lastNow)

C16_Witness ==
    /\ pc = "done" /\ timer_overflow_amount = 0 /\ period = MaxCalcPeriod
    /\ counter = 0 /\ lastNow = 0

C18_TimestampIsInfiniteOrMinimum ==
    (ipc = "none" /\ pc \in {"idle", "now_rd", "init_capture"}) =>
        /\ timestamp = U64_MAX \/ IsNextDeadline(timestamp, queue)
        /\ DOMAIN queue = {} => timestamp = U64_MAX

C18_Witness ==
    /\ ipc = "none" /\ pc = "idle" /\ period > 0
    /\ Cardinality(DOMAIN queue) = NumHandles
    /\ timestamp < U64_MAX /\ timestamp > lastNow + 1

\* C19: the retry loops of schedule_wake and of trigger_alarm terminate: once
\* a loop has started, however the counter advances while it runs with the
\* interrupts disabled, the loop is eventually left.
C19_RetryLoopsExit ==
    /\ (pc = "sw_exp") ~> (pc = "sw_ret")
    /\ (ipc = "exp") ~> (ipc = "ret")

\* C20: when a retry loop is left, the stored timestamp is u64::MAX or
\* greater than the now that the last set_alarm read; a set_alarm that finds
\* its candidate due leaves u64::MAX stored and the loop goes back to
\* next_expiration.
C20_ExitLeavesNoDueTimestamp ==
    /\ []((\/ pc = "sw_ret" /\ sw.changed
           \/ ipc = "ret")
          => (timestamp = U64_MAX \/ timestamp > lastNow))
    /\ [][(\/ pc = "sw_set" /\ pc' # "sw_set" /\ next <= lastNow'
           \/ ipc = "set" /\ ipc' # "set" /\ next <= lastNow')
          => /\ timestamp' = U64_MAX
             /\ pc = "sw_set" => pc' = "sw_exp"
             /\ ipc = "set" => ipc' = "exp"]_vars

C20_Witness ==
    /\ ipc = "ret" /\ timestamp = lastNow + 1
    /\ DOMAIN queue # DOMAIN chk.q0
    /\ chk.maxAll > chk.first

\* C21: in every run of the overflow handler period is incremented first:
\* the step that enters the handler adds one to period and evaluates no
\* expiration, and every later step of that run, up to its return, keeps
\* period and reads now() from the incremented period.
C21_IncrementPrecedesCheck ==
    /\ [][(ipc = "none" /\ ipc' # "none") =>
             /\ period' = period + 1
             /\ queue' = queue /\ lastNow' = lastNow]_vars
    /\ [][(ipc # "none") =>
             /\ period' = period
             /\ lastNow' # lastNow =>
                  lastNow' = calc_now(period, counter, initial_timer_value,
                                      timer_overflow_amount)
             /\ queue' # queue => ipc = "exp"]_vars

C21_Witness ==
    /\ ipc = "set" /\ period > 0
    /\ \E h \in DOMAIN chk.q0 \ DOMAIN queue :
          chk.q0[h] > calc_now(period - 1, counter, initial_timer_value,
                               timer_overflow_amount)

\* positions of mainline inside schedule_wake's critical section
SwSection == {"sw_exp", "sw_set", "sw_ret"}

\* C22: the timestamp and the queue change only in steps of schedule_wake's
\* critical section or of the handler's, and the handler never runs, nor
\* starts, while mainline is inside schedule_wake's critical section.
C22_AlarmStateMutualExclusion ==
    /\ [](~(ipc # "none" /\ pc \in SwSection))
    /\ [][(pc \in SwSection) => ipc' = "none"]_vars
    /\ [][(alarm' # alarm) =>
             \/ pc \in SwSection \/ pc' \in SwSection
             \/ ipc # "none" \/ ipc' # "none"]_vars

C22_Witness ==
    /\ pc = "sw_set" /\ irq /\ handler /\ ipc = "none"
    /\ period > 0 /\ DOMAIN queue # {}

\* C23: an overflow that occurs while mainline holds schedule_wake's critical
\* section is not lost: it raises an interrupt of its own (none is pending
\* already), and once the section is left the pending interrupt is taken
\* before mainline moves on, the handler adding one to period.
C23_OverflowInSectionIsCounted ==
    /\ [][(pc \in SwSection /\ overflows' = overflows + 1) => ~irq]_vars
    /\ [][(irq /\ handler /\ ipc = "none" /\ pc \in {"idle", "now_rd"}) =>
             /\ pc' = pc
             /\ ipc' # "none" => (ipc' = "exp" /\ period' = period + 1)]_vars

\* C24: now() loads period in one step and reads the counter in a later one,
\* with nothing holding the two together: the value returned is calc_now of
\* the period loaded earlier and the counter as it is at the read, whatever
\* overflow was serviced or became pending in between.
C24_NowPairsEarlierPeriodWithLiveCounter ==
    /\ [][(pc = "idle" /\ pc' = "now_rd") =>
             /\ rd_period' = period
             /\ lastNow' = lastNow]_vars
    /\ [][(pc = "now_rd") => rd_period' \in {rd_period, 0}]_vars
    /\ [][(pc = "now_rd" /\ pc' = "idle") =>
             lastNow' = calc_now(rd_period, read_timer_value,
                                 initial_timer_value, timer_overflow_amount)]_vars

\* an overflow was serviced between the load and the read: the counter is
\* past the boundary and period is ahead of the period loaded
C24_Witness ==
    /\ pc = "now_rd" /\ MainRuns
    /\ period = rd_period + 1 /\ rd_period > 0
    /\ counter = reload
    /\ calc_now(rd_period, read_timer_value, initial_timer_value,
                timer_overflow_amount) < lastNow

\* C25: the halt is left only by a step of an interrupt (the overflow
\* interrupt, acknowledged and handled, or an interrupt of another device,
\* which leaves the driver and the executor alone); an overflow interrupt
\* taken during the halt always ends it; after the halt the loop's next step
\* is a scheduler pass, and a halt with the interrupt pending leads to one.
C25_InterruptEndsHalt ==
    /\ [][(pc = "halted" /\ pc' # "halted") =>
             /\ pc' = "poll"
             /\ \/ irq /\ ~irq' /\ period' # period
                \/ UNCHANGED <<executor, hw, clock, alarm, lastNow>>]_vars
    /\ [][(pc = "halted" /\ pc' = "halted") =>
             /\ UNCHANGED <<executor, clock, alarm, lastNow>>
             /\ ~(irq /\ ~irq')]_vars
    /\ [][(pc = "poll" /\ pc' # "poll") =>
             (pc' = "polling" /\ lastStep' = "pass")]_vars
    /\ (pc = "halted" /\ irq) ~> (pc = "polling")

C25_Witness ==
    /\ pc = "poll" /\ lastStep = "halt"
    /\ run_queue # {} /\ period > 0 /\ ~irq

C27_InitialValueCapturedOnce ==
    /\ [][(\/ initial_timer_value' # initial_timer_value
           \/ pc = "init_capture" /\ pc' # "init_capture") =>
             /\ pc = "init_capture" /\ pc' = "idle"
             /\ running /\ ~timer /\ timer' /\ ~handler
             /\ period = 0 /\ ipc = "none" /\ ipc' = "none"
             /\ initial_timer_value' = counter']_vars
    /\ [][(pc' = "init_capture") => (~timer /\ ~timer')]_vars
    /\ [][timer => (timer' /\ initial_timer_value' = initial_timer_value)]_vars
    /\ [](timer => (reload <= initial_timer_value
                    /\ initial_timer_value < TIMER_MODULUS))

C27_Witness ==
    /\ timer /\ initial_timer_value = reload + 1
    /\ period = MaxOverflows /\ pc = "sw_ret"

\* C28: the increment of period at its largest value gives 0 (the width is
\* scaled: IdlePeriods stands for 2^32): the handler runs to its end as on
\* any other overflow, the loop goes on, and the now() of that handler is
\* computed from period 0, that is from the counter and the initial value.
C28_PeriodWrapsSilently ==
    [][(period = IdlePeriods - 1 /\ irq /\ ~irq') =>
          /\ period' = 0
          /\ lastNow' = AsU16(counter' - initial_timer_value + TIMER_MODULUS) \div 2
          /\ ipc' = "none"
          /\ pc' = (IF pc = "halted" THEN "poll" ELSE pc)]_vars

\* period is 0 again while the queue still holds a deadline that was
\* registered in a period after the first
C28_Witness ==
    /\ period = 0 /\ pc \in LoopPositions
    /\ \E h \in DOMAIN queue :
          queue[h] > calc_now(1, TIMER_MODULUS - 1, initial_timer_value,
                              timer_overflow_amount) + MaxDelay

\* C29: now() never runs ahead of real time: every value it has returned is
\* at most the logical time that has truly elapsed since the timer started.
C29_NowNotAheadOfTime == lastNow <= TrueNow

\* C30: time is continuous across every serviced overflow, the first
\* included: the hardware ticks computed for the counter's last value of a
\* period, plus one, are the hardware ticks computed for the next period at
\* the value the counter restarts from.
C30_ContinuousAcrossOverflow ==
    [][(period' = period + 1) =>
          hardware_ticks_elapsed(period', counter', initial_timer_value,
                                 timer_overflow_amount)
          = hardware_ticks_elapsed(period, counter, initial_timer_value,
                                   timer_overflow_amount) + 1]_vars

\* C31: for every overflow amount (0 included) and every counter, the
\* hardware ticks that calc_now computes grow from period p to period p + 1
\* (p >= 1), by exactly one period of the hardware timer.
C31_PeriodStepAddsOnePeriod ==
    (pc = "done" /\ period >= 1) =>
        LET a == hardware_ticks_elapsed(period, counter, initial_timer_value,
                                        timer_overflow_amount)
            b == hardware_ticks_elapsed(period + 1, counter,
                                        initial_timer_value,
                                        timer_overflow_amount)
        IN  /\ b > a
            /\ b - a = TIMER_MODULUS - ReloadValue(timer_overflow_amount)

\* C32: run starts up in a fixed order, each step once: init_timer is entered
\* only from the state as constructed; the init callback runs only with the
\* driver initialised and before any scheduler pass; the loop is entered only
\* by the callback's return, its first step being a scheduler pass; inside
\* the loop neither is repeated; and the first pass does come.
C32_StartUpOrder ==
    /\ [][(pc # "init_capture" /\ pc' = "init_capture") =>
             (pc = "idle" /\ ~timer /\ ~running /\ ~handler
              /\ lastStep = "none" /\ run_queue = {})]_vars
    /\ [][(pc \notin LoopPositions /\ pc' \in LoopPositions) =>
             (pc = "idle" /\ pc' = "poll" /\ timer /\ handler /\ running
              /\ lastStep = "none" /\ batch = {})]_vars
    /\ [][(pc \in LoopPositions) =>
             (pc' \in LoopPositions /\ timer' /\ running'
              /\ initial_timer_value' = initial_timer_value)]_vars
    /\ [][(pc = "poll" /\ lastStep = "none" /\ pc' # "poll") =>
             (pc' = "polling" /\ lastStep' = "pass")]_vars
    /\ <>(pc = "polling")

C32_Witness ==
    /\ pc = "polling" /\ lastStep = "pass" /\ timer
    /\ batch = Handles /\ run_queue = {} /\ DOMAIN queue = {}
    /\ period = 0

\* C33: the handler never runs against a partly initialised driver: between
\* the timer's start and the end of init_timer's critical section no handler
\* is installed and none runs; the section's end stores the initial value,
\* the handler and the timer together; so whenever the handler runs the timer
\* is stored and the initial value captured, and each now() it makes reads
\* the live counter, never the fallback 0.
C33_HandlerSeesInitialisedDriver ==
    /\ [](pc = "init_capture" => (~handler /\ ~timer /\ ipc = "none"))
    /\ [](ipc # "none" =>
             /\ timer /\ handler /\ running
             /\ read_timer_value = counter
             /\ reload <= initial_timer_value
             /\ initial_timer_value < TIMER_MODULUS)
    /\ [][(pc = "init_capture" /\ pc' # "init_capture") =>
             (timer' /\ handler' /\ initial_timer_value' = counter
              /\ ipc' = "none")]_vars
    /\ [][(ipc # "none" /\ lastNow' # lastNow) =>
             lastNow' = calc_now(period, counter, initial_timer_value,
                                 timer_overflow_amount)]_vars

\* the handler's first run, its first now() read from a counter that is not 0
C33_Witness ==
    /\ ipc = "set" /\ period = 1 /\ chk.first > 0
    /\ counter > 0 /\ initial_timer_value = reload + 1

\* C34: a schedule_wake for which the queue reports no change (the handle is
\* queued already, with a deadline no later than the one asked for) does
\* nothing to the alarm: the call goes straight to its end, with the
\* timestamp and the queue as they were and no now() read, so that no
\* expiration scan has run and no entry has left the queue; the scan and
\* set_alarm are only ever entered by a call that changed the queue.
C34_UnchangedQueueIsNoOp ==
    /\ [][(pc = "idle" /\ pc' \in SwSection /\ ~sw'.changed) =>
             /\ pc' = "sw_ret"
             /\ hnd' \in DOMAIN queue /\ queue[hnd'] <= at'
             /\ timestamp' = timestamp /\ queue' = queue
             /\ lastNow' = lastNow]_vars
    /\ [][(pc = "sw_ret" /\ ~sw.changed /\ pc' # "sw_ret") =>
             /\ pc' = "idle"
             /\ timestamp' = timestamp /\ queue' = queue
             /\ lastNow' = lastNow]_vars
    /\ []((pc = "sw_ret" /\ ~sw.changed) =>
             (sw.first = -1 /\ timestamp = sw.ts0))
    /\ [](pc \in {"sw_exp", "sw_set"} => sw.changed)

\* a call asking for a later deadline than the queued one, which is due by
\* now: the entry stays queued and the timestamp stays as it was
C34_Witness ==
    /\ pc = "sw_ret" /\ ~sw.changed
    /\ hnd \in DOMAIN queue /\ queue[hnd] < at
    /\ queue[hnd] <= NowValue
    /\ timestamp < U64_MAX

\* C36: before the time driver is initialised (no timer stored) period and
\* the initial timer value are 0 and the counter read falls back to 0, so
\* every now(), the ones schedule_wake makes included, returns 0, whatever
\* amount has been configured.
C36_NowIsZeroBeforeInit ==
    /\ [](~timer => (/\ period = 0 /\ initial_timer_value = 0
                     /\ read_timer_value = 0
                     /\ NowValue = 0 /\ lastNow = 0))
    /\ [][(~timer /\ pc = "now_rd" /\ pc' # "now_rd") => lastNow' = 0]_vars
    /\ [][(~timer /\ pc = "sw_exp" /\ pc' # "sw_exp") =>
             (lastNow' = 0 /\ sw'.first = 0)]_vars

\* a now() in progress before init, after a schedule_wake that read now() = 0
\* and with an amount configured
C36_Witness ==
    /\ ~timer /\ ~running /\ pc = "now_rd"
    /\ configured /\ timer_overflow_amount = ShortAmount
    /\ DOMAIN queue # {} /\ lastNow = 0

=============================================================================
